---- MODULE Spec2Model ----
(***************************************************************************)
(* State-machine model of squad_manager.py: select_matchday_squad builds a *)
(* binary program over the player feed, solves it, relaxes it once when    *)
(* the solver reports it infeasible, and reads the squad back.             *)
(*                                                                         *)
(* The solver (cbc behind pyo.SolverFactory) is the opaque service of the  *)
(* source: it is modelled by what it returns, a termination condition and, *)
(* when the model is feasible, one of its optimal assignments.             *)
(*                                                                         *)
(* Numbers are integers.  The objective of the source is multiplied by     *)
(* 10 * (matchday - 1) (by 10 on matchday 1) so that form_weight = 0.3 and *)
(* the division by (matchday - 1) stay exact; the set of maximisers is     *)
(* the same.                                                               *)
(***************************************************************************)
EXTENDS Integers, Sequences, FiniteSets, Bags, TLC

\* ------------------------------------------------------------------------
\* Bounds of the model (not program constants)
\* ------------------------------------------------------------------------

\* teamBalance of a current squad ranges over 0..MaxBalance
MaxBalance == 1

\* ------------------------------------------------------------------------
\* Program constants
\* ------------------------------------------------------------------------

num_matchdays == 13

avg_percent_sel == 10

min_percent_sel == 1

extra_trans_pen == 20

\* form_weight = 0.3, in tenths
form_weight10 == 3

\* upper bound of zNumExtraTransfers, bounds=(0, 15)
zUpper == 15

sSkills == {1, 2, 3, 4}

sMatchdays == 1..num_matchdays

sStages == {"Group stage", "Round of 16", "Quarter-finals", "Semi-finals", "Final"}

matchdays_in_stages ==
    [stage \in sStages |->
        CASE stage = "Group stage"    -> 1..6
          [] stage = "Round of 16"    -> {7, 8}
          [] stage = "Quarter-finals" -> {9, 10}
          [] stage = "Semi-finals"    -> {11, 12}
          [] stage = "Final"          -> {13}]

\* variant: a quota table that asks for one forward fewer
pReqdPlayersBySkills_short == [skill \in sSkills |-> <<2, 5, 5, 2>>[skill]]

pReqdPlayersBySkills == [skill \in sSkills |-> <<2, 5, 5, 3>>[skill]]

\* variant: a cap table whose group-stage entry is the cap of the next stage
pLimPlayersPerClub_late ==
    [stage \in sStages |->
        CASE stage = "Group stage"    -> 4
          [] stage = "Round of 16"    -> 4
          [] stage = "Quarter-finals" -> 5
          [] stage = "Semi-finals"    -> 6
          [] stage = "Final"          -> 8]

pLimPlayersPerClub ==
    [stage \in sStages |->
        CASE stage = "Group stage"    -> 3
          [] stage = "Round of 16"    -> 4
          [] stage = "Quarter-finals" -> 5
          [] stage = "Semi-finals"    -> 6
          [] stage = "Final"          -> 8]

pLimFreeTransfers ==
    [md \in sMatchdays |-> <<15, 2, 2, 2, 2, 2, 15, 3, 5, 3, 5, 3, 5>>[md]]

pBudget == [md \in sMatchdays |-> IF md > 6 THEN 105 ELSE 100]

\* find_key(matchdays_in_stages, matchday); the source returns None for a
\* matchday in no stage, which the inputs of this model never are
find_key(md) == CHOOSE stage \in sStages : md \in matchdays_in_stages[stage]

\* ------------------------------------------------------------------------
\* Helpers
\* ------------------------------------------------------------------------

Digit == <<"0", "1", "2", "3", "4", "5", "6", "7", "8", "9">>

\* str(n) of a non-negative int
RECURSIVE str(_)
str(n) == IF n < 10 THEN Digit[n + 1] ELSE str(n \div 10) \o Digit[(n % 10) + 1]

\* sum(f[x] for x in S)
RECURSIVE SumOver(_, _)
SumOver(S, f) ==
    IF S = {} THEN 0
    ELSE LET x == CHOOSE x \in S : TRUE IN f[x] + SumOver(S \ {x}, f)

\* Python None for a value that is otherwise a number: the empty tuple;
\* a number v is <<v>>
None == << >>

\* The text of a 'trained' field is the sequence of its characters
InContention ==
    <<"I", "n", " ", "c", "o", "n", "t", "e", "n", "t", "i", "o", "n", " ",
      "t", "o", " ", "s", "t", "a", "r", "t", " ", "n", "e", "x", "t", " ",
      "g", "a", "m", "e">>

\* Series.str.match(pat) for a pattern of letters and spaces: re.match
\* anchors the pattern at the start of the text and is case-sensitive
match(text, pat) ==
    /\ Len(text) >= Len(pat)
    /\ SubSeq(text, 1, Len(pat)) = pat

\* texts of the 'trained' field: '' between matchdays, the pattern with a
\* suffix, and two texts the pattern does not start
Blank == << >>

InContentionTbc == InContention \o <<" ", "(", "t", "b", "c", ")">>

NotInContention == <<"N", "o", "t", " ">> \o [InContention EXCEPT ![1] = "i"]

LowerCase == [InContention EXCEPT ![1] = "i"]

\* ------------------------------------------------------------------------
\* Inputs: the player feed (df_player_info), the current squad, the user
\* options and the matchday
\* ------------------------------------------------------------------------

FeedSkill == <<1, 1,  2, 2, 2, 2, 2,  3, 3, 3, 3, 3,  4, 4, 4,  1, 1,  2, 3, 4>>

\* the ids of the feed, in row order
RowOrder == [i \in 1..Len(FeedSkill) |-> str(i)]

FeedValue == <<6, 6,  7, 5, 5, 5, 5,  8, 6, 6, 6, 6,  8, 6, 6,  7, 4,  5, 6, 6>>

FeedTotPts == <<6, 5,  7, 4, 5, 6, 5,  8, 6, 5, 4, 6,  9, 5, 6,  7, 1,  12, 13, 11>>

FeedAvgPts == <<5, 4,  5, 4, 5, 4, 5,  6, 5, 4, 5, 4,  6, 5, 4,  5, 2,  6, 7, 6>>

FeedLastGd == <<5, 3,  6, 2, 4, 5, 3,  7, 4, 5, 2, 6,  8, 3, 5,  6, 1,  8, 9, 7>>

FeedSelPer == <<11, 11,  11, 11, 11, 11, 11,  11, 11, 11, 11, 11,  11, 11, 11,
                2, 2,  30, 30, 30>>

FeedName == <<"Alves", "Bravo",  "Cruz", "Diaz", "Silva", "Evra", "Foden",
              "Gomez", "Hazard", "Isco", "James", "Kroos",  "Lopez", "Mane", "Neres",
              "Oblak", "Pope",  "Silva", "Reus", "Salah">>

\* clubs of the feed while every club is still in the tournament, and once
\* the players of club A are the larger part of it
FeedClub ==
    [ spread |-> <<"A", "B",  "A", "B", "C", "D", "E",  "A", "B", "C", "D", "E",
                   "C", "D", "E",  "F", "G",  "A", "A", "A">>,
      packed |-> <<"A", "B",  "A", "A", "C", "D", "E",  "A", "A", "C", "D", "E",
                   "A", "D", "E",  "F", "G",  "A", "A", "A">> ]

\* the 'trained' column of a feed whose rows in untrained are ''
Trained(untrained) ==
    [i \in 1..Len(FeedSkill) |-> IF i \in untrained THEN Blank ELSE InContention]

\* who is inactive and what the 'trained' fields say, feed by feed
FeedStatus ==
    { [inactive |-> {}, trained |-> Trained({})],
      [inactive |-> {1}, trained |-> Trained({})],
      [inactive |-> {1, 2, 3, 8, 13}, trained |-> Trained({})],
      [inactive |-> {}, trained |-> Trained({1, 3, 8})],
      [inactive |-> {1}, trained |-> Trained({1, 3, 8})],
      [inactive |-> {}, trained |-> Trained(1..Len(FeedSkill))],
      [inactive |-> {},
       trained |-> [Trained({}) EXCEPT ![7] = InContentionTbc,
                                       ![9] = NotInContention,
                                       ![4] = LowerCase]] }

Feed(layout, status) ==
    [id \in {RowOrder[i] : i \in DOMAIN RowOrder} |->
        LET i == CHOOSE i \in DOMAIN RowOrder : RowOrder[i] = id IN
        [ id           |-> id,
          pDName       |-> FeedName[i],
          cCode        |-> FeedClub[layout][i],
          skill        |-> FeedSkill[i],
          value        |-> FeedValue[i],
          totPts       |-> FeedTotPts[i],
          avgPlayerPts |-> FeedAvgPts[i],
          lastGdPoints |-> FeedLastGd[i],
          selPer       |-> FeedSelPer[i],
          isActive     |-> IF i \in status.inactive THEN 0 ELSE 1,
          trained      |-> status.trained[i] ] ]

Layouts(md) == IF md <= 8 THEN {"spread"} ELSE {"packed"}

\* A Python dict with known keys is a record of its values plus the set of
\* keys it holds (a value under a key it does not hold is never read);
\* isNone marks the value None
NoSquad == [isNone |-> TRUE, keys |-> {}, playerid |-> {}, teamBalance |-> 0]

EmptySquad == [isNone |-> FALSE, keys |-> {}, playerid |-> {}, teamBalance |-> 0]

SquadOf(ids, b) ==
    [isNone |-> FALSE, keys |-> {"playerid", "teamBalance"},
     playerid |-> ids, teamBalance |-> b]

CurrentSquads ==
    {NoSquad, EmptySquad}
    \cup {SquadOf(1..15, b) : b \in 0..MaxBalance}
    \cup {SquadOf({}, pBudget[1]), SquadOf(1..14 \cup {99}, 0)}

NoOpt == [isNone |-> TRUE, includePlayers |-> << >>, excludePlayers |-> << >>]

OptOf(inc, exc) == [isNone |-> FALSE, includePlayers |-> inc, excludePlayers |-> exc]

UserOpts ==
    {NoOpt, OptOf(<<1>>, << >>), OptOf(<< >>, <<1>>), OptOf(<<99, 16>>, <<16>>)}

\* ------------------------------------------------------------------------
\* State
\* ------------------------------------------------------------------------

VARIABLES
    df_player_info,       \* the feed: id -> row
    matchday,
    current_squad,
    user_opt,
    solver_verdicts,      \* the termination conditions opt.solve can come back with
    pc,                   \* where select_matchday_squad is
    model,                \* the sets and parameters of the ConcreteModel
    ySelectPlayer,        \* id -> [fixed, value]: the Var's fixed flag and value
    zNumExtraTransfers,   \* value of the integer Var
    active,               \* names of the constraints that exist and are active
    results,              \* termination condition of the first solve
    last_condition,       \* termination condition of the latest solve
    solves,               \* number of opt.solve calls made
    relaxations,          \* number of times the relaxation block ran
    stats,                \* the two numbers printed before the squad
    opt_squad,            \* the list returned, as the bag of its names
    raised                \* the exception that ended the call, "" for none

vars == <<df_player_info, matchday, current_squad, user_opt, solver_verdicts, pc, model,
          ySelectPlayer, zNumExtraTransfers, active, results, last_condition,
          solves, relaxations, stats, opt_squad, raised>>

\* the arguments of the call and the solver it runs on
inputs == <<df_player_info, matchday, current_squad, user_opt, solver_verdicts>>

\* ------------------------------------------------------------------------
\* The sets and parameters of the Pyomo model
\* ------------------------------------------------------------------------

\* current_squad['playerid'] fails on None and on a dict without the key
sCurrentPlayers_raises(cs) == cs.isNone \/ "playerid" \notin cs.keys

sCurrentPlayers_init(cs) == {str(i) : i \in cs.playerid}

\* the ids of the rows whose 'trained' field the pattern matches
sAvailablePlayers_init(df) == {p \in DOMAIN df : match(df[p].trained, InContention)}

\* model.sPlayers .. model.pPlayerLastGdPoints, as select_matchday_squad
\* declares them; selPer is the column the two popularity rules read
DeclareModel(df, cs) ==
    LET players == DOMAIN df
        clubs == {df[p].cCode : p \in players}
        actives == {p \in players : df[p].isActive = 1}
        available == sAvailablePlayers_init(df)
    IN  [ sPlayers             |-> players,
          sActivePlayers       |-> actives,
          sInactivePlayers     |-> players \ actives,
          sAvailablePlayers    |-> available,
          sUnavailablePlayers  |-> players \ available,
          sCurrentPlayers      |-> sCurrentPlayers_init(cs),
          sPlayersWithSkills   |->
              [skill \in sSkills |-> {p \in players : df[p].skill = skill}],
          sClubs               |-> clubs,
          sPlayersInClubs      |->
              [club \in clubs |-> {p \in players : df[p].cCode = club}],
          pReqdPlayersBySkills |-> pReqdPlayersBySkills,
          pLimPlayersPerClub   |-> pLimPlayersPerClub,
          pLimFreeTransfers    |-> pLimFreeTransfers,
          pBudget              |-> pBudget,
          pPlayerValues        |-> [p \in players |-> df[p].value],
          pPlayerTotPoints     |-> [p \in players |-> df[p].totPts],
          pPlayerAvgPoints     |-> [p \in players |-> df[p].avgPlayerPts],
          pPlayerLastGdPoints  |-> [p \in players |-> df[p].lastGdPoints],
          selPer               |-> [p \in players |-> df[p].selPer],
          teamBalance          |-> cs.teamBalance ]

\* sum(f[p] for p in S) for S a set of feed ids, in row order
RECURSIVE SumRows(_, _, _)
SumRows(i, S, f) ==
    IF i = 0 THEN 0
    ELSE (IF RowOrder[i] \in S THEN f[RowOrder[i]] ELSE 0) + SumRows(i - 1, S, f)

Sum(S, f) == SumRows(Len(FeedSkill), S, f)

\* ------------------------------------------------------------------------
\* Constraints (define_basic_constraints and the two popularity rules).
\* An assignment is y, the set of players whose ySelectPlayer is 1, and z,
\* the value of zNumExtraTransfers.
\* ------------------------------------------------------------------------

rule_ReqdPlayersBySkills(m, y, skill) ==
    Cardinality(y \cap m.sPlayersWithSkills[skill]) = m.pReqdPlayersBySkills[skill]

rule_LimPlayersPerClub(m, y, club, stage) ==
    Cardinality(y \cap m.sPlayersInClubs[club]) <= m.pLimPlayersPerClub[stage]

rule_Budget(m, y, md) == Sum(y, m.pPlayerValues) <= m.pBudget[md]

\* variant: the budget rule of the other branch, applied to a current squad
rule_Balance_asBudget(m, y) == rule_Budget(m, y, matchday)

rule_Balance(m, y) ==
    Sum(m.sCurrentPlayers, m.pPlayerValues) - Sum(y, m.pPlayerValues)
        + m.teamBalance >= 0

rule_NumExtraTransfers(m, y, z, md) ==
    Cardinality(m.sCurrentPlayers \ y) - m.pLimFreeTransfers[md] <= z

\* variant: a limit that lets one extra transfer through
rule_LimFreeTransfers_one(z) == z <= 1

rule_LimFreeTransfers(z) == z <= 0

rule_AvgPercentSelected(m, y) ==
    Sum(y \cap m.sActivePlayers, m.selPer)
        >= avg_percent_sel * SumOver(sSkills, m.pReqdPlayersBySkills)

rule_MinPercentSelected(m, y, player) ==
    LET sel == IF player \in y THEN 1 ELSE 0
    IN  m.selPer[player] * sel >= min_percent_sel * sel

\* ------------------------------------------------------------------------
\* The solver: opt.solve(model) on the model as it stands (ys: the fixed
\* flags and values of ySelectPlayer, act: the active constraints)
\* ------------------------------------------------------------------------

\* a fixed variable keeps its value in every assignment
FixedOK(ys, y, players) ==
    \A p \in players : ys[p].fixed => ((p \in y) <=> (ys[p].value = <<1>>))

\* the assignments of one skill's players that meet cReqdPlayersBySkills
\* and the fixings; every player of the feed has one of the four skills
SkillChoices(m, ys, skill) ==
    {s \in SUBSET m.sPlayersWithSkills[skill] :
        /\ rule_ReqdPlayersBySkills(m, s, skill)
        /\ FixedOK(ys, s, m.sPlayersWithSkills[skill])}

FeasibleSquads(m, ys, act, md) ==
    LET stage == find_key(md)
        quota == {a \cup b \cup c \cup d :
                    a \in SkillChoices(m, ys, 1), b \in SkillChoices(m, ys, 2),
                    c \in SkillChoices(m, ys, 3), d \in SkillChoices(m, ys, 4)}
    IN  {y \in quota :
            /\ \A club \in m.sClubs : rule_LimPlayersPerClub(m, y, club, stage)
            /\ "cBudget" \in act => rule_Budget(m, y, md)
            /\ "cBalance" \in act => rule_Balance(m, y)
            /\ rule_AvgPercentSelected(m, y)
            /\ \A player \in m.sActivePlayers : rule_MinPercentSelected(m, y, player)}

\* the values of zNumExtraTransfers that go with the squad y: its bounds,
\* cNumExtraTransfers and, while it is active, cLimFreeTransfers
ExtraTransfers(m, y, act, md) ==
    {z \in 0..zUpper :
        /\ rule_NumExtraTransfers(m, y, z, md)
        /\ "cLimFreeTransfers" \in act => rule_LimFreeTransfers(z)}

Feasible(m, ys, act, md) ==
    UNION {{[y |-> y, z |-> z] : z \in ExtraTransfers(m, y, act, md)} :
              y \in FeasibleSquads(m, ys, act, md)}

\* the three objectives, each over sActivePlayers - sUnavailablePlayers,
\* and objOverall: times 10 on matchday 1, times 10 * (matchday - 1) after
objPlayers(m, y) == y \cap (m.sActivePlayers \ m.sUnavailablePlayers)

objMaxSquadValue(m, y) == Sum(objPlayers(m, y), m.pPlayerValues)

objMaxTotalPoints(m, y) == Sum(objPlayers(m, y), m.pPlayerTotPoints)

objMaxAvgPointsFormWeighted10(m, y) ==
    Sum(objPlayers(m, y),
        [p \in m.sPlayers |-> (10 - form_weight10) * m.pPlayerAvgPoints[p]
                               + form_weight10 * m.pPlayerLastGdPoints[p]])

objSquad(m, y, md) ==
    IF md = 1
    THEN objMaxAvgPointsFormWeighted10(m, y) + 10 * objMaxSquadValue(m, y)
    ELSE 10 * objMaxTotalPoints(m, y)
         + (md - 1) * (objMaxAvgPointsFormWeighted10(m, y) + 10 * objMaxSquadValue(m, y))

\* variant: an objective without the penalty term
objPenalty_none(z, md) == 0

objPenalty(z, md) == IF md = 1 THEN 0 ELSE 10 * (md - 1) * extra_trans_pen * z

Maximum(S) == CHOOSE v \in S : \A w \in S : w <= v

\* objOverall of the assignments with the squad y: the squad's objectives
\* less the penalty
objOverall(m, y, act, md) ==
    LET squad == objSquad(m, y, md)
    IN  {[sol |-> [y |-> y, z |-> z], obj |-> squad - objPenalty(z, md)] :
            z \in ExtraTransfers(m, y, act, md)}

\* cbc, run without limits as the source runs it, decides a bounded binary
\* program: optimal or infeasible
Decisive == {"optimal", "infeasible"}

\* the solver interface has further termination conditions (unbounded,
\* error, unknown, ...), here "other"; a solve that ends with one of them
\* has no solution to load
AnyVerdict == Decisive \cup {"other"}

\* opt.solve(model): the outcomes the solver may come back with, each a
\* termination condition and the solutions it may load with it.  A model
\* with an assignment is optimal, with the solutions that maximise
\* objOverall; a model without one is infeasible; and where the solver can
\* end with another condition, it may do so on any model
Solver(m, ys, act, md, verdicts) ==
    LET scored == UNION {objOverall(m, y, act, md) :
                            y \in FeasibleSquads(m, ys, act, md)}
        best == Maximum({s.obj : s \in scored})
        decided ==
            IF scored = {}
            THEN [condition |-> "infeasible", solutions |-> {}]
            ELSE [condition |-> "optimal",
                  solutions |-> {s.sol : s \in {t \in scored : t.obj = best}}]
    IN  {decided}
        \cup {[condition |-> c, solutions |-> {}] : c \in verdicts \ Decisive}

\* what the solve leaves in the model: a solution is loaded into the free
\* variables when there is one, and nothing is loaded when there is none
LoadSolution(ys, sol) ==
    [p \in DOMAIN ys |->
        IF ys[p].fixed THEN ys[p]
        ELSE [fixed |-> FALSE, value |-> <<IF p \in sol.y THEN 1 ELSE 0>>]]

\* ------------------------------------------------------------------------
\* select_matchday_squad, step by step
\* ------------------------------------------------------------------------

Fix(ys, players, v) ==
    [p \in DOMAIN ys |-> IF p \in players THEN [fixed |-> TRUE, value |-> <<v>>] ELSE ys[p]]

Unfix(ys, players) ==
    [p \in DOMAIN ys |-> IF p \in players THEN [ys[p] EXCEPT !.fixed = FALSE] ELSE ys[p]]

\* the ids of an option list that are players of the model
Known(m, list) == {str(list[i]) : i \in DOMAIN list} \cap m.sPlayers

\* "fix specific players": the include list, then the exclude list
FixUserOpt(m, ys, opt) ==
    IF opt.isNone THEN ys
    ELSE Fix(Fix(ys, Known(m, opt.includePlayers), 1), Known(m, opt.excludePlayers), 0)

\* the fixings of the build, in the order of the source: inactive players,
\* players not in contention, user options
FixBuild(m, opt) ==
    LET declared == [p \in m.sPlayers |-> [fixed |-> FALSE, value |-> None]]
    IN  FixUserOpt(m, Fix(Fix(declared, m.sInactivePlayers, 0), m.sUnavailablePlayers, 0), opt)

\* the constraints define_basic_constraints and the build add to the model
define_basic_constraints(cs) ==
    {"cReqdPlayersBySkills", "cLimitPlayersPerClub", "cNumExtraTransfers",
     "cLimFreeTransfers"}
    \cup (IF ~cs.isNone /\ cs.keys = {} THEN {"cBudget"} ELSE {"cBalance"})

BuiltConstraints(cs) ==
    define_basic_constraints(cs) \cup {"cAvgPercentSelected", "cMinPercentSelected"}

\* rule_Balance and rule_NumExtraTransfers index pPlayerValues and
\* ySelectPlayer by every current player
CurrentPlayers_raises(m) == ~(m.sCurrentPlayers \subseteq m.sPlayers)

Raise(exception) ==
    /\ pc' = "RAISED"
    /\ raised' = exception
    /\ UNCHANGED <<model, ySelectPlayer, zNumExtraTransfers, active, results,
                   last_condition, solves, relaxations, opt_squad>>

\* lines 143-333: declare the model, its constraints, fixings and objective
Build ==
    /\ pc = "BUILD"
    /\ UNCHANGED <<inputs, stats>>
    /\ IF sCurrentPlayers_raises(current_squad)
       THEN Raise(IF current_squad.isNone THEN "TypeError" ELSE "KeyError")
       ELSE LET m == DeclareModel(df_player_info, current_squad) IN
            IF CurrentPlayers_raises(m)
            THEN Raise("KeyError")
            ELSE /\ model' = m
                 /\ ySelectPlayer' = FixBuild(m, user_opt)
                 /\ zNumExtraTransfers' = 0
                 /\ active' = BuiltConstraints(current_squad)
                 /\ pc' = "SOLVE"
                 /\ UNCHANGED <<results, last_condition, solves, relaxations,
                                opt_squad, raised>>

\* opt.solve(model, tee=True): one more solve; a solution is loaded into the
\* model only when the solver has one
SolverCall(solved) ==
    /\ solves' = solves + 1
    /\ IF solved.condition = "optimal"
       THEN \E sol \in solved.solutions :
               /\ ySelectPlayer' = LoadSolution(ySelectPlayer, sol)
               /\ zNumExtraTransfers' = sol.z
       ELSE UNCHANGED <<ySelectPlayer, zNumExtraTransfers>>

\* lines 335-337
Solve ==
    /\ pc = "SOLVE"
    /\ \E solved \in Solver(model, ySelectPlayer, active, matchday, solver_verdicts) :
          /\ SolverCall(solved)
          /\ results' = solved.condition
          /\ last_condition' = solved.condition
    /\ pc' = "SOLVED"
    /\ UNCHANGED <<inputs, model, active, relaxations, stats, opt_squad, raised>>

\* variant: a relaxation block that runs on every verdict but optimal
RelaxGuard_notOptimal == results # "optimal"

\* lines 341-345
RelaxGuard == results = "infeasible"

Relaxable(m) == m.sUnavailablePlayers \cap m.sCurrentPlayers

Relax ==
    /\ pc = "SOLVED"
    /\ RelaxGuard
    /\ ySelectPlayer' = Unfix(ySelectPlayer, Relaxable(model))
    /\ active' = active \ {"cLimFreeTransfers"}
    /\ relaxations' = relaxations + 1
    /\ pc' = "RESOLVE"
    /\ UNCHANGED <<inputs, model, zNumExtraTransfers, results, last_condition,
                   solves, stats, opt_squad, raised>>

\* lines 347-349: the second solve, whose results are not kept
Resolve ==
    /\ pc = "RESOLVE"
    /\ \E solved \in Solver(model, ySelectPlayer, active, matchday, solver_verdicts) :
          /\ SolverCall(solved)
          /\ last_condition' = solved.condition
    /\ pc' = "STATS"
    /\ UNCHANGED <<inputs, model, active, results, relaxations, stats, opt_squad,
                   raised>>

\* pyo.value(v) >= 0.9999 for a variable whose value is 0 or 1
Selected(ys, p) == ys[p].value = <<1>>

\* the display names appended for the selected players among rows 1..i.
\* sPlayers is declared ordered=False, so the order of the list is that of
\* the set's iteration, which the source does not fix: the list is kept as
\* the bag of its names
RECURSIVE SquadNames(_, _, _)
SquadNames(df, ys, i) ==
    IF i = 0 THEN EmptyBag
    ELSE SquadNames(df, ys, i - 1)
         (+) (IF RowOrder[i] \in DOMAIN ys /\ Selected(ys, RowOrder[i])
              THEN SetToBag({df[RowOrder[i]].pDName}) ELSE EmptyBag)

\* pyo.value of a variable that has no value raises ValueError
Value_raises(ys, players) == \E p \in players : ys[p].value = None

\* lines 351-357: the number of extra transfers is printed, then the
\* unavailable players are read and their number in the squad is printed
PrintStats(m, ys, z) ==
    [numExtraTransfers |-> z,
     numInactivePlayersInSquad |->
         IF Value_raises(ys, m.sUnavailablePlayers)
         THEN stats.numInactivePlayersInSquad
         ELSE Cardinality({p \in m.sUnavailablePlayers : Selected(ys, p)})]

\* lines 351-365: the stats, then the squad; the first variable read
\* without a value ends the call
Result ==
    /\ \/ pc = "SOLVED" /\ ~RelaxGuard
       \/ pc = "STATS"
    /\ UNCHANGED inputs
    /\ stats' = PrintStats(model, ySelectPlayer, zNumExtraTransfers)
    /\ IF Value_raises(ySelectPlayer, model.sPlayers)
       THEN Raise("ValueError")
       ELSE /\ opt_squad' = SquadNames(df_player_info, ySelectPlayer, Len(RowOrder))
            /\ pc' = "RETURNED"
            /\ UNCHANGED <<model, ySelectPlayer, zNumExtraTransfers, active, results,
                           last_condition, solves, relaxations, raised>>

EmptyModel == << >>

\* the call is entered with its arguments; nothing is built yet
Entry ==
    /\ matchday \in sMatchdays
    /\ \E layout \in Layouts(matchday), status \in FeedStatus :
          df_player_info = Feed(layout, status)
    /\ current_squad \in CurrentSquads
    /\ user_opt \in UserOpts
    /\ pc = "BUILD"
    /\ model = EmptyModel
    /\ ySelectPlayer = << >>
    /\ zNumExtraTransfers = 0
    /\ active = {}
    /\ results = "none"
    /\ last_condition = "none"
    /\ solves = 0
    /\ relaxations = 0
    /\ stats = [numExtraTransfers |-> 0, numInactivePlayersInSquad |-> 0]
    /\ opt_squad = EmptyBag
    /\ raised = ""

Init == Entry /\ solver_verdicts = Decisive

Next == Build \/ Solve \/ Relax \/ Resolve \/ Result

Spec == Init /\ [][Next]_vars

\* the same call on a solver that may also end with another termination
\* condition
InitAnyVerdict == Entry /\ solver_verdicts = AnyVerdict

SpecAnyVerdict == InitAnyVerdict /\ [][Next]_vars

\* ------------------------------------------------------------------------
\* What the properties read
\* ------------------------------------------------------------------------

\* the players the result extraction reads as selected
TheSquad == {p \in DOMAIN ySelectPlayer : Selected(ySelectPlayer, p)}

\* the model has been declared, constrained and fixed
Built == pc = "SOLVE" \/ solves > 0

\* a squad has been returned and the latest solve found the model feasible
FoundFeasible == pc = "RETURNED" /\ last_condition = "optimal"

Price(S) == Sum(S, model.pPlayerValues)

ClubCount(club) == Cardinality({p \in TheSquad : df_player_info[p].cCode = club})

\* the current-squad players that are not in the result
NotRetained == model.sCurrentPlayers \ TheSquad

\* the variables that are fixed now, and those the build fixed
FixedNow == {p \in DOMAIN ySelectPlayer : ySelectPlayer[p].fixed}

FixedAtBuild ==
    LET ys == FixBuild(model, user_opt) IN {p \in DOMAIN ys : ys[p].fixed}

\* the model as the build leaves it has an assignment
HardCapFeasible ==
    Feasible(model, FixBuild(model, user_opt), BuiltConstraints(current_squad),
             matchday) # {}

\* the model as the build leaves it has an assignment once the limit on
\* extra transfers is taken away, and none with it
SolelyCap ==
    /\ results = "infeasible"
    /\ matchday > 1
    /\ Feasible(model, FixBuild(model, user_opt),
                BuiltConstraints(current_squad) \ {"cLimFreeTransfers"},
                matchday) # {}

\* ------------------------------------------------------------------------
\* C1
\* ------------------------------------------------------------------------

\* C1: a squad returned after a solve that found the model feasible, the
\* first or the relaxed one, has exactly 15 players: 2 of skill 1, 5 of
\* skill 2, 5 of skill 3 and 3 of skill 4.
C1_SquadShape ==
    FoundFeasible =>
        /\ BagCardinality(opt_squad) = 15
        /\ Cardinality(TheSquad) = 15
        /\ \A skill \in 1..4 :
              Cardinality({p \in TheSquad : df_player_info[p].skill = skill})
                  = <<2, 5, 5, 3>>[skill]

\* a squad returned after the relaxation, two of whose players share a
\* display name
C1_Witness ==
    /\ FoundFeasible
    /\ relaxations = 1
    /\ BagCardinality(opt_squad) = 15
    /\ \E name \in BagToSet(opt_squad) : CopiesIn(name, opt_squad) = 2

\* ------------------------------------------------------------------------
\* C2
\* ------------------------------------------------------------------------

\* the caps as the specification lists them, by matchday
StageCap(md) ==
    CASE md <= 6  -> 3
      [] md <= 8  -> 4
      [] md <= 10 -> 5
      [] md <= 12 -> 6
      [] OTHER    -> 8

\* C2: in a squad returned after a solve that found the model feasible, on
\* any matchday 1..13 and also after the relaxation, no club has more
\* players than the cap of the matchday's stage (3, 4, 5, 6, 8).
C2_ClubCap ==
    FoundFeasible =>
        \A club \in model.sClubs : ClubCount(club) <= StageCap(matchday)

\* a squad returned after the relaxation in which a club is at the cap of
\* a knockout stage
C2_Witness ==
    /\ FoundFeasible
    /\ relaxations = 1
    /\ matchday > 6
    /\ \E club \in model.sClubs : ClubCount(club) = StageCap(matchday)

\* ------------------------------------------------------------------------
\* C3
\* ------------------------------------------------------------------------

\* C3 as the specification states it: every returned squad has
\* teamBalance + (prices of the current players it retains) - (prices of
\* all its players) >= 0.
C3_RetainedOnly ==
    pc = "RETURNED" =>
        current_squad.teamBalance + Price(TheSquad \cap model.sCurrentPlayers)
            - Price(TheSquad) >= 0

\* C3: a squad returned after a solve that found the model feasible has
\* teamBalance + (prices of all current players, retained or sold)
\* - (prices of all its players) >= 0.
C3_Balance ==
    FoundFeasible =>
        current_squad.teamBalance + Price(model.sCurrentPlayers)
            - Price(TheSquad) >= 0

\* a returned squad that bought players for more than the team balance and
\* spent the proceeds of the players it sold to the last unit
C3_Witness ==
    /\ FoundFeasible
    /\ NotRetained # {}
    /\ Price(TheSquad \ model.sCurrentPlayers) > current_squad.teamBalance
    /\ current_squad.teamBalance + Price(model.sCurrentPlayers) - Price(TheSquad) = 0

\* ------------------------------------------------------------------------
\* C4
\* ------------------------------------------------------------------------

\* C4: with the current squad None or {}, the call does not fail while it
\* builds the model, the model has the budget constraint and not the
\* balance constraint, and a returned squad costs at most the stage budget
\* (100 on matchdays 1-6, 105 on matchdays 7-13).
C4_InitialSquadMode ==
    (current_squad.isNone \/ current_squad.keys = {}) =>
        /\ ~(pc = "RAISED" /\ solves = 0)
        /\ Built => ("cBudget" \in active /\ "cBalance" \notin active)
        /\ pc = "RETURNED" =>
              Price(TheSquad) <= (IF matchday <= 6 THEN 100 ELSE 105)

\* ------------------------------------------------------------------------
\* C5
\* ------------------------------------------------------------------------

\* C5: when the first solve and the relaxed solve both report the model
\* infeasible, no squad is returned.
C5_TerminalFailure ==
    (solves = 2 /\ results = "infeasible" /\ last_condition = "infeasible")
        => pc # "RETURNED"

\* ------------------------------------------------------------------------
\* C6
\* ------------------------------------------------------------------------

\* the players of the feed that are inactive and named in includePlayers
IncludedInactive ==
    {p \in DOMAIN df_player_info :
        /\ df_player_info[p].isActive = 0
        /\ \E i \in DOMAIN user_opt.includePlayers : str(user_opt.includePlayers[i]) = p}

\* C6: when includePlayers names an inactive player of the feed, no solve
\* finds the model feasible and no squad is returned.
C6_IncludeInactive ==
    IncludedInactive # {} => (last_condition # "optimal" /\ pc # "RETURNED")

\* ------------------------------------------------------------------------
\* C7
\* ------------------------------------------------------------------------

\* C7: the first solve reports optimal exactly when the model the build
\* leaves is feasible, and from then on there is one solve call and no
\* relaxation, the limit on extra transfers stays active, the fixed
\* variables are those the build fixed, zNumExtraTransfers is 0, the call
\* returns, and the squad it returns leaves out at most pLimFreeTransfers
\* of the current players.
C7_NoRelaxation ==
    /\ pc = "SOLVED" => (results = "optimal" <=> HardCapFeasible)
    /\ results = "optimal" =>
          /\ solves = 1
          /\ relaxations = 0
          /\ "cLimFreeTransfers" \in active
          /\ FixedNow = FixedAtBuild
          /\ zNumExtraTransfers = 0
          /\ pc \in {"SOLVED", "RETURNED"}
          /\ pc = "RETURNED" =>
                /\ stats.numExtraTransfers = 0
                /\ Cardinality(NotRetained) <= pLimFreeTransfers[matchday]

\* a squad returned after one solve that uses the whole allowance of a
\* matchday after the first
C7_Witness ==
    /\ pc = "RETURNED"
    /\ results = "optimal"
    /\ matchday > 1
    /\ Cardinality(NotRetained) = pLimFreeTransfers[matchday]
    /\ stats.numExtraTransfers = 0

\* ------------------------------------------------------------------------
\* C8
\* ------------------------------------------------------------------------

\* C8 as the specification states it: when only the limit on extra
\* transfers makes the built model infeasible, the relaxed solve finds the
\* model feasible with zNumExtraTransfers > 0 and equal to the number of
\* current players not retained minus the allowance.
C8_AlwaysPositive ==
    (pc \in {"STATS", "RETURNED"} /\ SolelyCap) =>
        /\ last_condition = "optimal"
        /\ zNumExtraTransfers > 0
        /\ zNumExtraTransfers
              = Cardinality(NotRetained) - pLimFreeTransfers[matchday]

\* C8: when only the limit on extra transfers makes the built model
\* infeasible, the relaxed solve finds the model feasible with
\* zNumExtraTransfers = max(0, current players not retained - allowance),
\* which is > 0 when the result keeps every fixing of the build, and the
\* returned stats report it.
C8_ExtraTransfers ==
    (pc \in {"STATS", "RETURNED"} /\ SolelyCap) =>
        LET over == Cardinality(NotRetained) - pLimFreeTransfers[matchday] IN
        /\ last_condition = "optimal"
        /\ zNumExtraTransfers = (IF over > 0 THEN over ELSE 0)
        /\ FixedOK(FixBuild(model, user_opt), TheSquad, model.sPlayers)
              => zNumExtraTransfers > 0
        /\ pc = "RETURNED" => stats.numExtraTransfers = zNumExtraTransfers

\* a current squad of 15, an allowance of 2, and a returned squad that
\* leaves out exactly 5 of the current players: 3 extra transfers
C8_Witness ==
    /\ pc = "RETURNED"
    /\ SolelyCap
    /\ Cardinality(model.sCurrentPlayers) = 15
    /\ pLimFreeTransfers[matchday] = 2
    /\ Cardinality(NotRetained) = 5
    /\ stats.numExtraTransfers = 3

\* ------------------------------------------------------------------------
\* C9
\* ------------------------------------------------------------------------

\* C9: the call goes BUILD, SOLVE, then the result, or the relaxation, the
\* second solve and the result; the relaxation runs only after a first
\* solve that reported infeasible, not after optimal and not after any
\* other verdict, at most once, and there are at most two solve calls.
C9_ControlFlow ==
    /\ solves <= 2
    /\ relaxations <= 1
    /\ relaxations = 1 => results = "infeasible"
    /\ results \in {"optimal", "other"} => relaxations = 0
    /\ pc \in {"BUILD", "SOLVE"} => (solves = 0 /\ relaxations = 0)
    /\ pc = "SOLVED" => (solves = 1 /\ relaxations = 0)
    /\ pc = "RESOLVE" => (solves = 1 /\ relaxations = 1)
    /\ pc = "STATS" => (solves = 2 /\ relaxations = 1)
    /\ pc \in {"RETURNED", "RAISED"} /\ solves > 0 =>
          \/ solves = 1 /\ relaxations = 0 /\ results # "infeasible"
          \/ solves = 2 /\ relaxations = 1 /\ results = "infeasible"

\* a call that returned after the relaxation and the second solve
C9_Witness ==
    /\ pc = "RETURNED"
    /\ solves = 2
    /\ relaxations = 1
    /\ results = "infeasible"

\* ------------------------------------------------------------------------
\* C10
\* ------------------------------------------------------------------------

\* C10: in a returned squad no player of excludePlayers is selected, and no
\* inactive player is selected.  An inactive player that includePlayers
\* names is the case of C6 and is left out of this statement, which is
\* weaker than the specification's and fails for the relaxation alone.
C10_FixesSurvive ==
    pc = "RETURNED" =>
        \A p \in TheSquad :
            /\ p \notin Known(model, user_opt.excludePlayers)
            /\ p \in model.sInactivePlayers
                  => p \in Known(model, user_opt.includePlayers)

====
